---- MODULE Spec2Model ----
(***************************************************************************)
(* Model of kalman.py: the block-diagonal expansion make_nd, the single-   *)
(* axis matrix generators of the constant-acceleration model, and the      *)
(* predict/update loop of the __main__ driver with its plotting step.      *)
(*                                                                         *)
(* Numbers are exact rationals <<n, d>> (d > 0, lowest terms); numpy        *)
(* arrays are records [nd |-> number of dimensions, a |-> data] where a     *)
(* is a sequence of numbers (nd = 1) or a sequence of rows (nd = 2).        *)
(* An operation numpy refuses (ValueError, LinAlgError) yields Err.         *)
(***************************************************************************)
EXTENDS Integers, Sequences, FiniteSets, TLC

VARIABLES
    pc,               \* position of the driver
    delta_t,          \* kalman.py:82
    accel_var,        \* kalman.py:83
    initial_pos,      \* argument of get_starting_position, kalman.py:96
    initial_pos_std,  \* argument of get_starting_uncertainty, kalman.py:97
    F, G, Q, H, I,    \* kalman.py:84-88
    x_est, p_est,     \* kalman.py:96-97, 109, 111
    control, meas, var,        \* kalman.py:103-104
    x_predict, p_predict, K, fact,   \* kalman.py:106-110
    est_log, meas_log,         \* kalman.py:91-92, 113-114
    exc,              \* the exception that ended the run, "" while none
    plot_est, plot_err,        \* the two series of the est_z errorbar, kalman.py:120
    gen_mtx, ndim, nd_out      \* one call of make_nd(gen, ndim)()

vars == <<pc, delta_t, accel_var, initial_pos, initial_pos_std, F, G, Q, H, I,
          x_est, p_est, control, meas, var, x_predict, p_predict, K, fact,
          est_log, meas_log, exc, plot_est, plot_err, gen_mtx, ndim, nd_out>>

----------------------------------------------------------------------------
(* Bounds of the model *)

\* iterations of the driver loop that are explored
MaxIter == 2
\* largest number of rows and of columns of a generic single-axis matrix
MaxRows == 2
MaxCols == 2
\* the loop is explored on from estimates whose numerators and denominators
\* are at most this (the arithmetic of the model is exact, on bounded integers)
MaxNumber == 100

(* Program constants *)

\* default axis count of make_nd
DefaultNdim == 3

----------------------------------------------------------------------------
(* Exact rational arithmetic standing for Python floats *)

Abs(n) == IF n < 0 THEN -n ELSE n

RECURSIVE GCD(_, _)
GCD(a, b) == IF b = 0 THEN a ELSE GCD(b, a % b)

Norm(n, d) ==
    IF n = 0 THEN <<0, 1>>
    ELSE LET g == GCD(Abs(n), d) IN <<n \div g, d \div g>>

Rat(n) == <<n, 1>>
Frac(n, d) == Norm(n, d)
Zero == <<0, 1>>
One == <<1, 1>>
Half == <<1, 2>>

RAdd(p, q) ==
    IF p[1] = 0 THEN q
    ELSE IF q[1] = 0 THEN p
    ELSE IF p[2] = 1 /\ q[2] = 1 THEN <<p[1] + q[1], 1>>
    ELSE LET g == GCD(p[2], q[2])
         IN Norm(p[1] * (q[2] \div g) + q[1] * (p[2] \div g), (p[2] \div g) * q[2])

RNeg(p) == <<-p[1], p[2]>>
RSub(p, q) == RAdd(p, RNeg(q))

RMul(p, q) ==
    IF p[1] = 0 \/ q[1] = 0 THEN Zero
    ELSE IF p[2] = 1 /\ q[2] = 1 THEN <<p[1] * q[1], 1>>
    ELSE LET g1 == GCD(Abs(p[1]), q[2])
             g2 == GCD(Abs(q[1]), p[2])
         IN <<(p[1] \div g1) * (q[1] \div g2), (p[2] \div g2) * (q[2] \div g1)>>

\* 1/p for p # 0
RInv(p) == IF p[1] < 0 THEN <<-p[2], -p[1]>> ELSE <<p[2], p[1]>>
RDiv(p, q) == RMul(p, RInv(q))

RLess(p, q) == p[1] * q[2] < q[1] * p[2]
RPos(p) == p[1] > 0

----------------------------------------------------------------------------
(* numpy arrays *)

Vec(v) == [nd |-> 1, a |-> v]
Mat(m) == [nd |-> 2, a |-> m]
Err == [nd |-> 0, a |-> <<>>]
IsErr(x) == x.nd = 0
\* the value of a name that has not been assigned yet
Unset == [nd |-> 0, a |-> <<>>]

\* the sequence f with its elements evaluated
Tup(f) == f \o <<>>

Rows(m) == Len(m)
Cols(m) == IF Len(m) = 0 THEN 0 ELSE Len(m[1])

RECURSIVE DotTo(_, _, _, _)
\* sum over k in 1..n of u(k) * w(k), u and w given as sequences
DotTo(u, w, n, acc) ==
    IF n = 0 THEN acc ELSE DotTo(u, w, n - 1, RAdd(acc, RMul(u[n], w[n])))

Dot(u, w) == DotTo(u, w, Len(u), Zero)

ColOf(m, j) == Tup([i \in 1..Len(m) |-> m[i][j]])

RawTranspose(m) == Tup([j \in 1..Cols(m) |-> Tup([i \in 1..Rows(m) |-> m[i][j]])])

RawMatMul(m1, m2) ==
    LET t == RawTranspose(m2)
    IN Tup([i \in 1..Rows(m1) |-> Tup([j \in 1..Len(t) |-> Dot(m1[i], t[j])])])

\* np.transpose: reverses the axes, so a 1-D array is returned as it is
Transpose(x) ==
    IF x.nd = 2 THEN Mat(RawTranspose(x.a)) ELSE x

\* the @ operator (np.matmul) on 1-D and 2-D operands
MatMul(x, y) ==
    IF IsErr(x) \/ IsErr(y) THEN Err
    ELSE IF x.nd = 2 /\ y.nd = 2 THEN
        IF Cols(x.a) = Rows(y.a) THEN Mat(RawMatMul(x.a, y.a)) ELSE Err
    ELSE IF x.nd = 2 /\ y.nd = 1 THEN
        IF Cols(x.a) = Len(y.a)
        THEN Vec(Tup([i \in 1..Rows(x.a) |-> Dot(x.a[i], y.a)])) ELSE Err
    ELSE IF x.nd = 1 /\ y.nd = 2 THEN
        IF Len(x.a) = Rows(y.a)
        THEN Vec(Tup([j \in 1..Cols(y.a) |-> Dot(x.a, ColOf(y.a, j))])) ELSE Err
    ELSE Err

\* elementwise binary operation with numpy broadcasting of a 1-D operand
\* against the rows of a 2-D operand
Elementwise(Op(_, _), x, y) ==
    IF IsErr(x) \/ IsErr(y) THEN Err
    ELSE IF x.nd = 2 /\ y.nd = 2 THEN
        IF Rows(x.a) = Rows(y.a) /\ Cols(x.a) = Cols(y.a)
        THEN Mat(Tup([i \in 1..Rows(x.a) |->
                    Tup([j \in 1..Cols(x.a) |-> Op(x.a[i][j], y.a[i][j])])]))
        ELSE Err
    ELSE IF x.nd = 1 /\ y.nd = 1 THEN
        IF Len(x.a) = Len(y.a)
        THEN Vec(Tup([i \in 1..Len(x.a) |-> Op(x.a[i], y.a[i])])) ELSE Err
    ELSE IF x.nd = 2 /\ y.nd = 1 THEN
        IF Cols(x.a) = Len(y.a)
        THEN Mat(Tup([i \in 1..Rows(x.a) |->
                    Tup([j \in 1..Cols(x.a) |-> Op(x.a[i][j], y.a[j])])]))
        ELSE Err
    ELSE
        IF Cols(y.a) = Len(x.a)
        THEN Mat(Tup([i \in 1..Rows(y.a) |->
                    Tup([j \in 1..Cols(y.a) |-> Op(x.a[j], y.a[i][j])])]))
        ELSE Err

Add(x, y) == Elementwise(RAdd, x, y)
Sub(x, y) == Elementwise(RSub, x, y)

\* scalar * array
Scale(s, x) ==
    IF IsErr(x) THEN Err
    ELSE IF x.nd = 2
    THEN Mat(Tup([i \in 1..Rows(x.a) |->
                Tup([j \in 1..Cols(x.a) |-> RMul(s, x.a[i][j])])]))
    ELSE Vec(Tup([i \in 1..Len(x.a) |-> RMul(s, x.a[i])]))

\* np.eye(n, n)
Eye(n) == Mat(Tup([i \in 1..n |-> Tup([j \in 1..n |-> IF i = j THEN One ELSE Zero])]))

\* np.zeros_like on the rows of a 2-D array
ZerosLike(m) == Tup([i \in 1..Rows(m) |-> Tup([j \in 1..Cols(m) |-> Zero])])

----------------------------------------------------------------------------
(* make_nd, kalman.py:13-32.  None is the empty sequence of rows. *)

None == <<>>

\* concat_optional((a, b)): np.concatenate along axis 0 of those not None
ConcatAxis0(a, b) == a \o b

\* concat_optional((a, b), axis=1)
ConcatAxis1(a, b) ==
    IF a = None THEN b
    ELSE IF b = None THEN a
    ELSE Tup([i \in 1..Rows(a) |-> a[i] \o b[i]])

RECURSIVE NdColFilled(_, _, _)
\* NdCol with the blocks off the diagonal filled with mtx instead of zeros
NdColFilled(mtx, i, j) ==
    IF j = 0 THEN None ELSE ConcatAxis0(NdColFilled(mtx, i, j - 1), mtx)

RECURSIVE NdCol(_, _, _)
\* the inner loop: col after j blocks (j counted from 1) of block column i
NdCol(mtx, i, j) ==
    IF j = 0 THEN None
    ELSE ConcatAxis0(NdCol(mtx, i, j - 1),
                     IF i = j THEN mtx ELSE ZerosLike(mtx))

RECURSIVE NdBase(_, _, _)
\* the outer loop: base after i block columns
NdBase(mtx, n, i) ==
    IF i = 0 THEN None
    ELSE ConcatAxis1(NdBase(mtx, n, i - 1), NdCol(mtx, i, n))

make_nd(mtx, n) == Mat(NdBase(mtx, n, n))

----------------------------------------------------------------------------
(* The single-axis generators and their expansions, kalman.py:35-76 *)

\* transition_gen with the velocity row not scaled by the time step
transition_gen_unscaled(t) ==
    << <<One,  t,    RMul(RMul(Half, t), t)>>,
       <<Zero, One,  One>>,
       <<Zero, Zero, One>> >>

transition_gen(t) ==
    << <<One,  t,    RMul(RMul(Half, t), t)>>,
       <<Zero, One,  t>>,
       <<Zero, Zero, One>> >>

get_transition_matrix(t) == make_nd(transition_gen(t), DefaultNdim)

control_gen(t) ==
    << <<t,    RMul(RMul(Half, t), t)>>,
       <<One,  t>>,
       <<Zero, One>> >>

get_control_matrix(t) == make_nd(control_gen(t), DefaultNdim)

\* get_process_noise with accel_std not squared
get_process_noise_unsquared(t, accel_std) ==
    LET G0 == get_control_matrix(t)
    IN MatMul(Scale(accel_std, G0), Transpose(G0))

\* accel_std**2 * G @ np.transpose(G): * and @ associate to the left
get_process_noise(t, accel_std) ==
    LET G0 == get_control_matrix(t)
    IN MatMul(Scale(RMul(accel_std, accel_std), G0), Transpose(G0))

get_observation_matrix ==
    Mat(<< <<One,  Zero, Zero, Zero, Zero, Zero, Zero, Zero, Zero>>,
           <<Zero, Zero, Zero, One,  Zero, Zero, Zero, Zero, Zero>>,
           <<Zero, Zero, Zero, Zero, Zero, Zero, One,  Zero, Zero>> >>)

get_starting_position(pos) ==
    Transpose(Vec(<<pos[1], Zero, Zero, pos[2], Zero, Zero, pos[3], Zero, Zero>>))

uncertainty_gen(std) ==
    LET i == RMul(std, std)
    IN << <<i,    Zero, Zero>>,
          <<Zero, Zero, Zero>>,
          <<Zero, Zero, Zero>> >>

get_starting_uncertainty(std) == make_nd(uncertainty_gen(std), DefaultNdim)

----------------------------------------------------------------------------
(* np.linalg.inv: the inverse of a square 2-D array, LinAlgError otherwise *)

DropAt(s, k) == Tup([i \in 1..(Len(s) - 1) |-> IF i < k THEN s[i] ELSE s[i + 1]])

Minor(m, r, c) ==
    Tup([i \in 1..(Len(m) - 1) |-> DropAt(m[IF i < r THEN i ELSE i + 1], c)])

Sign(k) == IF k % 2 = 0 THEN One ELSE Rat(-1)

RECURSIVE Det(_)
RECURSIVE DetRow(_, _, _)
\* expansion along the first row, columns 1..j
DetRow(m, j, acc) ==
    IF j = 0 THEN acc
    ELSE DetRow(m, j - 1,
                IF m[1][j][1] = 0 THEN acc
                ELSE RAdd(acc, RMul(RMul(Sign(1 + j), m[1][j]), Det(Minor(m, 1, j)))))

Det(m) == IF Len(m) = 0 THEN One ELSE DetRow(m, Len(m), Zero)

Singular(m) == Det(m)[1] = 0

RawInv(m) ==
    LET d == Det(m)
    IN Tup([i \in 1..Len(m) |->
          Tup([j \in 1..Len(m) |-> RDiv(RMul(Sign(i + j), Det(Minor(m, j, i))), d)])])

\* Inv answering a singular matrix with the zero matrix instead of an error
InvOfSingularZero(x) ==
    IF IsErr(x) THEN Err
    ELSE IF x.nd # 2 \/ Rows(x.a) # Cols(x.a) THEN Err
    ELSE IF Singular(x.a) THEN Mat(ZerosLike(x.a))
    ELSE Mat(RawInv(x.a))

Inv(x) ==
    IF IsErr(x) THEN Err
    ELSE IF x.nd # 2 \/ Rows(x.a) # Cols(x.a) THEN Err
    ELSE IF Singular(x.a) THEN Err
    ELSE Mat(RawInv(x.a))

----------------------------------------------------------------------------
(* Inputs *)

\* values given to delta_t, accel_var, initial_pos_std and initial_pos in the
\* runs of the driver
DeltaTs == {One}
AccelStds == {Zero, Rat(2)}
PosStds == {One}
InitialPositions == {<<Zero, Zero, One>>, <<Zero, Zero, Rat(3)>>}

\* values given to the parameters of the model-building functions alone
AllDeltaTs == {Rat(-2), Rat(-1), Frac(-1, 2), Zero, Frac(1, 2), One, Rat(2)}
AllAccelStds == {Rat(-2), Rat(-1), Zero, Frac(1, 2), One}
AllPosStds == {Rat(-1), Zero, One, Rat(2)}

\* what model.get_control_vector() returns
Controls ==
    { Vec(<<Zero, Zero, Zero, Zero, Zero, Zero>>),
      Vec(<<Zero, Zero, Zero, Zero, One, Zero>>),
      Vec(<<Zero, Zero, Zero, Zero, Zero>>) }

\* what model.step() returns as the measurement
Measurements ==
    { Vec(<<Zero, Zero, Rat(2)>>),
      Vec(<<Zero, Rat(2)>>) }

\* what model.step() returns as the covariance of the measurement
Covariances ==
    { Mat(<< <<One, Zero, Zero>>, <<Zero, One, Zero>>, <<Zero, Zero, One>> >>),
      Mat(<< <<One, Zero, Zero>>, <<Zero, Rat(2), One>>, <<Zero, One, One>> >>),
      Mat(<< <<Zero, Zero, Zero>>, <<Zero, Zero, Zero>>, <<Zero, Zero, Zero>> >>),
      Mat(<< <<One, Zero>>, <<Zero, One>> >>),
      Vec(<<One, One, One>>) }

\* the single-axis matrices a generic generator returns
EntryValues == {Zero, One}
GenericMatrices ==
    UNION { [1..r -> [1..c -> EntryValues]] : r \in 1..MaxRows, c \in 1..MaxCols }

----------------------------------------------------------------------------
(* The driver, kalman.py:78-123 *)

ITERATIONS == 40

\* the iterations the loop runs in the model
Iterations == IF MaxIter < ITERATIONS THEN MaxIter ELSE ITERATIONS

\* est[6] and var[5,5] of the est_z errorbar
EstIndex == 6
ErrIndexRow == 5
ErrIndexCol == 5

\* x[i] and x[i, j] with Python's indices from 0
Item(x, i) == x.a[i + 1]
Item2(x, i, j) == x.a[i + 1][j + 1]

\* np.sqrt, kept symbolic: the root of q
Sqrt(q) == [sqrt_of |-> q]

\* The right-hand sides of kalman.py:106-111 as functions of the values they read
PredictState(Fm, Gm, x, u) == Add(MatMul(Fm, x), MatMul(Gm, u))
PredictCov(Fm, Qm, P) == Add(MatMul(MatMul(Fm, P), Transpose(Fm)), Qm)
InnovationCov(Hm, Pp, R) == Add(MatMul(MatMul(Hm, Pp), Transpose(Hm)), R)
\* KalmanGain without the inversion of the innovation covariance
KalmanGainNoInverse(Hm, Pp, R) ==
    MatMul(MatMul(Pp, Transpose(Hm)), InnovationCov(Hm, Pp, R))
KalmanGain(Hm, Pp, R) == MatMul(MatMul(Pp, Transpose(Hm)), Inv(InnovationCov(Hm, Pp, R)))
UpdateState(Hm, xp, Kk, z) == Add(xp, MatMul(Kk, Sub(z, MatMul(Hm, xp))))
JosephFactor(Im, Hm, Kk) == Sub(Im, MatMul(Kk, Hm))
\* UpdateCov without the transposition of the second factor
UpdateCovNoTranspose(fa, Pp, Kk, R) ==
    Add(MatMul(MatMul(fa, Pp), fa), MatMul(MatMul(Kk, R), Transpose(Kk)))
UpdateCov(fa, Pp, Kk, R) ==
    Add(MatMul(MatMul(fa, Pp), Transpose(fa)), MatMul(MatMul(Kk, R), Transpose(Kk)))

\* the state before kalman.py:81, the parameters apart
Blank ==
    /\ pc = "setup"
    /\ F = Unset /\ G = Unset /\ Q = Unset /\ H = Unset /\ I = Unset
    /\ x_est = Unset /\ p_est = Unset
    /\ control = Unset /\ meas = Unset /\ var = Unset
    /\ x_predict = Unset /\ p_predict = Unset /\ K = Unset /\ fact = Unset
    /\ est_log = <<>> /\ meas_log = <<>>
    /\ exc = ""
    /\ plot_est = <<>> /\ plot_err = <<>>
    /\ gen_mtx = None /\ ndim = DefaultNdim /\ nd_out = Unset

Init ==
    /\ delta_t \in DeltaTs
    /\ accel_var \in AccelStds
    /\ initial_pos \in InitialPositions
    /\ initial_pos_std \in PosStds
    /\ Blank

\* kalman.py:81-97
Setup ==
    /\ pc = "setup"
    /\ F' = get_transition_matrix(delta_t)
    /\ G' = get_control_matrix(delta_t)
    /\ Q' = get_process_noise(delta_t, accel_var)
    /\ H' = get_observation_matrix
    /\ I' = Eye(Cols(get_observation_matrix.a))
    /\ x_est' = get_starting_position(initial_pos)
    /\ p_est' = get_starting_uncertainty(initial_pos_std)
    /\ pc' = "loop"
    /\ UNCHANGED <<delta_t, accel_var, initial_pos, initial_pos_std, control, meas,
                   var, x_predict, p_predict, K, fact, est_log, meas_log, exc,
                   plot_est, plot_err, gen_mtx, ndim, nd_out>>

params == <<delta_t, accel_var, initial_pos, initial_pos_std, F, G, Q, H, I>>
nd_vars == <<gen_mtx, ndim, nd_out>>

Small(q) == Abs(q[1]) <= MaxNumber /\ q[2] <= MaxNumber

Representable ==
    /\ \A i \in 1..Len(x_est.a) : Small(x_est.a[i])
    /\ \A i \in 1..Rows(p_est.a) : \A j \in 1..Cols(p_est.a) : Small(p_est.a[i][j])

\* kalman.py:102-104
Fetch ==
    /\ pc = "loop"
    /\ Len(est_log) < Iterations
    /\ Representable
    /\ control' \in Controls
    /\ meas' \in Measurements
    /\ var' \in Covariances
    /\ pc' = "predict_x"
    /\ UNCHANGED <<params, x_est, p_est, x_predict, p_predict, K, fact, est_log,
                   meas_log, exc, plot_est, plot_err, nd_vars>>

\* kalman.py:106
x_predict_value == PredictState(F, G, x_est, control)

PredictX ==
    /\ pc = "predict_x"
    /\ LET v == x_predict_value
       IN IF IsErr(v)
          THEN pc' = "failed" /\ exc' = "ValueError" /\ UNCHANGED x_predict
          ELSE pc' = "predict_p" /\ x_predict' = v /\ UNCHANGED exc
    /\ UNCHANGED <<params, x_est, p_est, control, meas, var, p_predict, K, fact,
                   est_log, meas_log, plot_est, plot_err, nd_vars>>

\* kalman.py:107
p_predict_value == PredictCov(F, Q, p_est)

PredictP ==
    /\ pc = "predict_p"
    /\ LET v == p_predict_value
       IN IF IsErr(v)
          THEN pc' = "failed" /\ exc' = "ValueError" /\ UNCHANGED p_predict
          ELSE pc' = "gain" /\ p_predict' = v /\ UNCHANGED exc
    /\ UNCHANGED <<params, x_est, p_est, control, meas, var, x_predict, K, fact,
                   est_log, meas_log, plot_est, plot_err, nd_vars>>

\* kalman.py:108
innovation_cov == InnovationCov(H, p_predict, var)

K_value == KalmanGain(H, p_predict, var)

Gain ==
    /\ pc = "gain"
    /\ LET v == K_value
       IN IF IsErr(v)
          THEN /\ pc' = "failed"
               /\ exc' = IF ~IsErr(innovation_cov) /\ IsErr(Inv(innovation_cov))
                         THEN "LinAlgError" ELSE "ValueError"
               /\ UNCHANGED K
          ELSE pc' = "update_x" /\ K' = v /\ UNCHANGED exc
    /\ UNCHANGED <<params, x_est, p_est, control, meas, var, x_predict, p_predict,
                   fact, est_log, meas_log, plot_est, plot_err, nd_vars>>

\* kalman.py:109
\* x_est_value reading the previous estimate instead of the prediction
x_est_value_from_estimate == UpdateState(H, x_est, K, meas)
x_est_value == UpdateState(H, x_predict, K, meas)

UpdateX ==
    /\ pc = "update_x"
    /\ LET v == x_est_value
       IN IF IsErr(v)
          THEN pc' = "failed" /\ exc' = "ValueError" /\ UNCHANGED x_est
          ELSE pc' = "fact" /\ x_est' = v /\ UNCHANGED exc
    /\ UNCHANGED <<params, p_est, control, meas, var, x_predict, p_predict, K, fact,
                   est_log, meas_log, plot_est, plot_err, nd_vars>>

\* kalman.py:110
fact_value == JosephFactor(I, H, K)

Fact ==
    /\ pc = "fact"
    /\ LET v == fact_value
       IN IF IsErr(v)
          THEN pc' = "failed" /\ exc' = "ValueError" /\ UNCHANGED fact
          ELSE pc' = "update_p" /\ fact' = v /\ UNCHANGED exc
    /\ UNCHANGED <<params, x_est, p_est, control, meas, var, x_predict, p_predict,
                   K, est_log, meas_log, plot_est, plot_err, nd_vars>>

\* kalman.py:111
p_est_value == UpdateCov(fact, p_predict, K, var)

UpdateP ==
    /\ pc = "update_p"
    /\ LET v == p_est_value
       IN IF IsErr(v)
          THEN pc' = "failed" /\ exc' = "ValueError" /\ UNCHANGED p_est
          ELSE pc' = "log" /\ p_est' = v /\ UNCHANGED exc
    /\ UNCHANGED <<params, x_est, control, meas, var, x_predict, p_predict, K, fact,
                   est_log, meas_log, plot_est, plot_err, nd_vars>>

\* kalman.py:113-114
Log ==
    /\ pc = "log"
    /\ est_log' = Append(est_log, <<x_est, p_est>>)
    /\ meas_log' = Append(meas_log, <<meas, var>>)
    /\ pc' = "loop"
    /\ UNCHANGED <<params, x_est, p_est, control, meas, var, x_predict, p_predict,
                   K, fact, exc, plot_est, plot_err, nd_vars>>

\* kalman.py:119-120, the est_z errorbar
Plot ==
    /\ pc = "loop"
    /\ Len(est_log) = Iterations
    /\ plot_est' = Tup([k \in 1..Len(est_log) |-> Item(est_log[k][1], EstIndex)])
    /\ plot_err' = Tup([k \in 1..Len(est_log) |->
                          Sqrt(Item2(est_log[k][2], ErrIndexRow, ErrIndexCol))])
    /\ pc' = "done"
    /\ UNCHANGED <<params, x_est, p_est, control, meas, var, x_predict, p_predict,
                   K, fact, est_log, meas_log, exc, nd_vars>>

Next ==
    \/ Setup
    \/ Fetch
    \/ PredictX
    \/ PredictP
    \/ Gain
    \/ UpdateX
    \/ Fact
    \/ UpdateP
    \/ Log
    \/ Plot

Spec == Init /\ [][Next]_vars

----------------------------------------------------------------------------
(* The model-building functions alone, over a wider range of parameters *)

InitModel ==
    /\ delta_t \in AllDeltaTs
    /\ accel_var \in AllAccelStds
    /\ initial_pos \in InitialPositions
    /\ initial_pos_std \in AllPosStds
    /\ Blank

NextModel == Setup

SpecModel == InitModel /\ [][NextModel]_vars

----------------------------------------------------------------------------
(* One call of the function make_nd(gen, ndim) returns, for a generic gen *)

NdAxisCounts == {1, 2, 3, 5}

InitND ==
    /\ pc = "nd_call"
    /\ gen_mtx \in GenericMatrices
    /\ ndim \in NdAxisCounts
    /\ nd_out = Unset
    /\ delta_t = Zero /\ accel_var = Zero
    /\ initial_pos = <<Zero, Zero, Zero>> /\ initial_pos_std = Zero
    /\ F = Unset /\ G = Unset /\ Q = Unset /\ H = Unset /\ I = Unset
    /\ x_est = Unset /\ p_est = Unset
    /\ control = Unset /\ meas = Unset /\ var = Unset
    /\ x_predict = Unset /\ p_predict = Unset /\ K = Unset /\ fact = Unset
    /\ est_log = <<>> /\ meas_log = <<>>
    /\ exc = ""
    /\ plot_est = <<>> /\ plot_err = <<>>

\* kalman.py:19-30
CallMakeNd ==
    /\ pc = "nd_call"
    /\ nd_out' = make_nd(gen_mtx, ndim)
    /\ pc' = "nd_done"
    /\ UNCHANGED <<params, x_est, p_est, control, meas, var, x_predict, p_predict,
                   K, fact, est_log, meas_log, exc, plot_est, plot_err, gen_mtx, ndim>>

NextND == CallMakeNd

SpecND == InitND /\ [][NextND]_vars

----------------------------------------------------------------------------
(* Properties of make_nd *)

SingleRows == Rows(gen_mtx)
SingleCols == Cols(gen_mtx)

\* entry (i, j), counted from 1, lies in one of the blocks on the diagonal
OnDiagonalBlock(i, j, r, c) == (i - 1) \div r = (j - 1) \div c

\* C1: the function make_nd(gen, N) returns produces an (N*r) x (N*c) matrix
\* whose N diagonal blocks equal the r x c output of gen entry for entry and
\* whose other entries are zero, for N in {1, 2, 3, 5}.
C1_BlockDiagonal ==
    pc = "nd_done" =>
        /\ nd_out.nd = 2
        /\ Len(nd_out.a) = ndim * SingleRows
        /\ \A i \in 1..(ndim * SingleRows) :
              /\ Len(nd_out.a[i]) = ndim * SingleCols
              /\ \A j \in 1..(ndim * SingleCols) :
                    nd_out.a[i][j] =
                        IF OnDiagonalBlock(i, j, SingleRows, SingleCols)
                        THEN gen_mtx[((i - 1) % SingleRows) + 1][((j - 1) % SingleCols) + 1]
                        ELSE Zero

C1_Witness ==
    /\ pc = "nd_done"
    /\ ndim = 5
    /\ SingleRows = 2 /\ SingleCols = 1
    /\ gen_mtx[1][1] = One /\ gen_mtx[2][1] = One
    /\ nd_out.a[10][5] = One /\ nd_out.a[10][4] = Zero

----------------------------------------------------------------------------
(* Properties of the model-building functions *)

AllZero(x) ==
    /\ x.nd = 2
    /\ \A i \in 1..Rows(x.a) : \A j \in 1..Cols(x.a) : x.a[i][j] = Zero

Built == pc # "setup"

\* the sizes of the state, of the control and of the measurement
StateDim == 9
ControlDim == 6
MeasDim == 3
\* derivatives tracked per axis and control channels per axis
AxisOrder == 3
AxisControls == 2

\* C2 as stated: with delta_t = 0 the transition matrix is the identity and the
\* control matrix and the process noise are all-zero, for any accel_std.
C2_ZeroStepAllZero ==
    (Built /\ delta_t = Zero) => (F = Eye(StateDim) /\ AllZero(G) /\ AllZero(Q))

\* C2 as amended: with delta_t = 0 the transition matrix is the identity, the
\* control matrix has a 1 at the velocity row of the first channel and at the
\* acceleration row of the second channel of each axis and zeros elsewhere, and
\* the process noise is accel_std^2 on the velocity and acceleration diagonal
\* entries and zero elsewhere.
C2_ZeroStep ==
    (Built /\ delta_t = Zero) =>
        /\ F = Eye(StateDim)
        /\ G.nd = 2 /\ Rows(G.a) = StateDim /\ Cols(G.a) = ControlDim
        /\ \A i \in 1..StateDim : \A j \in 1..ControlDim :
              G.a[i][j] =
                  IF /\ OnDiagonalBlock(i, j, AxisOrder, AxisControls)
                     /\ (i - 1) % AxisOrder = ((j - 1) % AxisControls) + 1
                  THEN One ELSE Zero
        /\ Q.nd = 2 /\ Rows(Q.a) = StateDim /\ Cols(Q.a) = StateDim
        /\ \A i \in 1..StateDim : \A j \in 1..StateDim :
              Q.a[i][j] =
                  IF i = j /\ (i - 1) % AxisOrder # 0
                  THEN RMul(accel_var, accel_var) ELSE Zero

C2_Witness ==
    /\ Built /\ delta_t = Zero /\ accel_var = Frac(1, 2)
    /\ G.a[2][1] = One
    /\ Q.a[9][9] = Frac(1, 4)

Negative(q) == q[1] < 0

\* C5: a negative delta_t, or a negative standard deviation, is rejected: the
\* model-building functions yield an error instead of a matrix.
C5_DegenerateRejected ==
    (Built /\ (Negative(delta_t) \/ Negative(accel_var) \/ Negative(initial_pos_std)))
        => (pc = "failed" \/ IsErr(F) \/ IsErr(G) \/ IsErr(Q) \/ IsErr(p_est))

\* C10: get_process_noise(delta_t, accel_std) is accel_std^2 * G * G^T on the
\* expanded control matrix, and equals the block-diagonal expansion of the
\* single-axis product accel_std^2 * g * g^T.
SingleAxisNoise ==
    RawMatMul(Scale(RMul(accel_var, accel_var), Mat(control_gen(delta_t))).a,
              RawTranspose(control_gen(delta_t)))

C10_NoiseExpansion ==
    Built =>
        /\ G = make_nd(control_gen(delta_t), DefaultNdim)
        /\ Q = Scale(RMul(accel_var, accel_var), MatMul(G, Transpose(G)))
        /\ Q.nd = 2 /\ Rows(Q.a) = StateDim /\ Cols(Q.a) = StateDim
        /\ \A i \in 1..StateDim : \A j \in 1..StateDim :
              Q.a[i][j] =
                  IF OnDiagonalBlock(i, j, AxisOrder, AxisOrder)
                  THEN SingleAxisNoise[((i - 1) % AxisOrder) + 1][((j - 1) % AxisOrder) + 1]
                  ELSE Zero

C10_Witness ==
    /\ Built /\ delta_t = Rat(2) /\ accel_var = Rat(-2)
    /\ Q.a[1][1] = Rat(32)
    /\ Q.a[4][5] = Rat(24)
    /\ Q.a[1][4] = Zero

----------------------------------------------------------------------------
(* Properties of the predict/update loop *)

InitialEstimate ==
    <<get_starting_position(initial_pos), get_starting_uncertainty(initial_pos_std)>>

\* the estimate pair the running iteration started from
LastRecorded == IF est_log = <<>> THEN InitialEstimate ELSE est_log[Len(est_log)]

\* C3: a step that fails leaves x_est and p_est as they were before the step;
\* x_est is never updated without p_est.
C3_FailedStepUnchanged ==
    pc = "failed" => <<x_est, p_est>> = LastRecorded

SingularInnovation == ~IsErr(innovation_cov) /\ Singular(innovation_cov.a)

\* the predictions of the running iteration have been computed
Predicted ==
    /\ x_predict = PredictState(F, G, LastRecorded[1], control)
    /\ p_predict = PredictCov(F, Q, LastRecorded[2])

\* C4: an update whose innovation covariance is not invertible fails with an
\* error instead of producing an estimate, and x_est and p_est keep the values
\* they had before the step.
C4_SingularUpdateFails ==
    /\ pc \in {"update_x", "fact", "update_p", "log"} => ~SingularInnovation
    /\ (pc = "failed" /\ Predicted /\ SingularInnovation) =>
          /\ exc = "LinAlgError"
          /\ <<x_est, p_est>> = LastRecorded
    /\ exc = "LinAlgError" =>
          /\ pc = "failed"
          /\ SingularInnovation
          /\ <<x_est, p_est>> = LastRecorded

C4_Witness ==
    /\ pc = "failed"
    /\ exc = "LinAlgError"
    /\ Len(est_log) = 1
    /\ AllZero(var)
    /\ SingularInnovation

Symmetric(x) ==
    /\ x.nd = 2
    /\ Rows(x.a) = Cols(x.a)
    /\ \A i \in 1..Rows(x.a) : \A j \in 1..Rows(x.a) : x.a[i][j] = x.a[j][i]

RECURSIVE PSDRaw(_)
\* a symmetric matrix is positive semi-definite iff its first diagonal entry
\* is positive and the Schur complement of it is positive semi-definite, or
\* its first row is zero and the rest is positive semi-definite
PSDRaw(m) ==
    IF Len(m) = 0 THEN TRUE
    ELSE LET a == m[1][1]
             n == Len(m)
         IN IF a[1] < 0 THEN FALSE
            ELSE IF a[1] = 0
            THEN (\A j \in 1..n : m[1][j] = Zero) /\ PSDRaw(Minor(m, 1, 1))
            ELSE PSDRaw(Tup([i \in 1..(n - 1) |-> Tup([j \in 1..(n - 1) |->
                            RSub(m[i + 1][j + 1],
                                 RMul(RDiv(m[i + 1][1], a), m[1][j + 1]))])]))

PositiveSemiDefinite(x) == Symmetric(x) /\ PSDRaw(x.a)

\* C6: from the covariance get_starting_uncertainty builds, with symmetric
\* positive semi-definite Q and measurement covariances, p_est is symmetric
\* and positive semi-definite after every iteration of the loop.
C6_CovarianceSymmetricPSD ==
    Built => PositiveSemiDefinite(p_est)

C6_Witness ==
    /\ pc = "loop"
    /\ Len(est_log) = 2
    /\ delta_t = One /\ accel_var = Rat(2)
    /\ p_est.a[4][7] # Zero
    /\ p_est.a[7][8] # Zero
    /\ p_est # est_log[1][2]

\* C7: the standard deviation reported with the state component of index i is
\* the square root of the diagonal entry (i, i) of the covariance recorded
\* with that estimate.
C7_StdOfReportedComponent ==
    pc = "done" =>
        \A k \in 1..Len(est_log) :
            /\ plot_est[k] = Item(est_log[k][1], EstIndex)
            /\ plot_err[k] = Sqrt(Item2(est_log[k][2], EstIndex, EstIndex))

ZeroVector(x) == x.nd = 1 /\ \A i \in 1..Len(x.a) : x.a[i] = Zero

PositiveDiagonal(x) ==
    /\ x.nd = 2 /\ Rows(x.a) = MeasDim /\ Cols(x.a) = MeasDim
    /\ \A i \in 1..MeasDim : \A j \in 1..MeasDim :
          IF i = j THEN RPos(x.a[i][j]) ELSE x.a[i][j] = Zero

StrictlyBetween(q, a, b) ==
    \/ RLess(a, q) /\ RLess(q, b)
    \/ RLess(b, q) /\ RLess(q, a)

\* index of the z measurement
MeasZIndex == 2

FirstStepOfScenario ==
    /\ pc = "log"
    /\ est_log = <<>>
    /\ RPos(delta_t)
    /\ initial_pos_std # Zero
    /\ ZeroVector(control) /\ Len(control.a) = ControlDim
    /\ PositiveDiagonal(var)
    /\ meas.nd = 1 /\ Len(meas.a) = MeasDim
    /\ Item(meas, MeasZIndex) # initial_pos[3]

\* C8: after one predict with zero control and one update with a diagonal,
\* positive measurement covariance, the z position of the estimate lies
\* strictly between the initial z position and the measured z.
C8_EstimateBetween ==
    FirstStepOfScenario =>
        StrictlyBetween(Item(x_est, EstIndex), initial_pos[3], Item(meas, MeasZIndex))

C8_Witness ==
    /\ FirstStepOfScenario
    /\ delta_t = One /\ accel_var = Rat(2)
    /\ initial_pos[3] = Rat(3)
    /\ Item(meas, MeasZIndex) = Rat(2)
    /\ Item(x_est, EstIndex) = Frac(15, 7)

\* C9: in every iteration the predict comes before the update, the update is
\* computed from the x_predict and p_predict of the same iteration, and each
\* estimate recorded in est_log is the pair after an update.
C9_PredictThenUpdate ==
    LET x0 == LastRecorded[1]
        P0 == LastRecorded[2]
        xp == PredictState(F, G, x0, control)
        Pp == PredictCov(F, Q, P0)
        Kk == KalmanGain(H, Pp, var)
    IN /\ Len(est_log) = Len(meas_log)
       /\ pc \in {"loop", "done", "predict_x", "predict_p", "gain", "update_x"}
             => <<x_est, p_est>> = LastRecorded
       /\ pc \in {"predict_p", "gain", "update_x", "fact", "update_p", "log"}
             => x_predict = xp
       /\ pc \in {"gain", "update_x", "fact", "update_p", "log"}
             => p_predict = Pp
       /\ pc \in {"update_x", "fact", "update_p", "log"}
             => K = Kk
       /\ pc \in {"fact", "update_p", "log"}
             => x_est = UpdateState(H, xp, Kk, meas)
       /\ pc \in {"fact", "update_p"}
             => p_est = P0
       /\ pc \in {"update_p", "log"}
             => fact = JosephFactor(I, H, Kk)
       /\ pc = "log"
             => p_est = UpdateCov(JosephFactor(I, H, Kk), Pp, Kk, var)
       /\ pc = "loop" /\ est_log # <<>>
             => meas_log[Len(meas_log)] = <<meas, var>>

C9_Witness ==
    /\ pc = "log"
    /\ Len(est_log) = 1
    /\ ~ZeroVector(control)
    /\ x_predict # LastRecorded[1]
    /\ p_predict # LastRecorded[2]
    /\ x_est # x_predict
    /\ p_est # p_predict

====
